---- MODULE Spec2Model ----
(***************************************************************************)
(* Model of the morph chain Client (package client): the switchLock        *)
(* read/write discipline, the inactive mode transition, the RPC            *)
(* operations and the argument conversion toStackParameter.                *)
(*                                                                         *)
(* Caller goroutines run the public operations; one driver goroutine runs  *)
(* the connection loop's endpoint switch and inactiveMode.  Every          *)
(* connection call and every lock operation is one step.                   *)
(***************************************************************************)
EXTENDS Integers, Sequences, FiniteSets, TLC

\* ---------------------------------------------------------------- bounds
MaxInactive == 2      \* how many times the driver may run inactiveMode
MaxSwaps    == 1      \* how many endpoint switches the driver may perform
MaxBlocks   == 1      \* how many new blocks the chain may produce
MaxCalls    == 3      \* connection calls one Wait may issue before it is cut off
MaxArgs     == 2      \* arguments of one Invoke or TestInvoke

\* Machine integers are modelled at a reduced width: uint32 heights wrap at
\* 2^HeightBits and int64 fees at 2^FeeBits (two's complement).
HeightBits  == 3
FeeBits     == 3

\* calls of invalidate
MaxInvalidate == 1
\* calls of setNNSHash, setGroupKey and of the transaction-height insertion
MaxSets == 2
\* calls of nns and groupKey
MaxReads == 2

\* ------------------------------------------------------- program constants
Uint32Mod == 2 ^ HeightBits
Int64Mod  == 2 ^ FeeBits
Int64Max  == (Int64Mod \div 2) - 1
HaltState == "HALT"

Callers == {"g1", "g2"}
Driver  == "d"
\* the frame of an operation the went-inactive callback calls; it runs on the
\* goroutine of inactiveMode
Callback == "cb"
Frames  == Callers \cup {Callback}
None    == "none"

VARIABLES
    inactive,       \* Client.inactive
    notifications,  \* Client.notifications: "open" or "closed"
    client,         \* Client.client: handle of the active connection
    switchLock,     \* Client.switchLock: [readers, writer, pending]
    cfg,            \* Client.cfg: [inactiveModeCb]
    chainHeight,    \* block count the connected node reports
    dpc,            \* position of the driver goroutine
    stats,          \* history counters of the lifecycle transition
    pc,             \* position of each caller goroutine
    op,             \* operation each caller runs
    in,             \* inputs of the running operation
    lv,             \* local variables of the running operation
    calls,          \* connection calls the running operation has issued
    ret,            \* value the operation returned
    cache,          \* Client.cache: [m, nnsHash, gKey, txHeights]
    kproc,          \* position and locals of each goroutine using the cache
    hist            \* history of the cache: invalidations, writes, values read

gvars == <<inactive, notifications, client, cfg, chainHeight>>
dvars == <<dpc, stats>>
cvars == <<pc, op, in, lv, calls, ret>>
kvars == <<cache, kproc, hist>>
vars  == <<inactive, notifications, client, switchLock, cfg, chainHeight,
           dpc, stats, pc, op, in, lv, calls, ret, cache, kproc, hist>>

\* ------------------------------------------------------------ sync.RWMutex
\* RLock succeeds when no writer holds the lock and none is waiting for it.
\* a lock whose readers exclude each other as writers do
CanRLockExclusive ==
    /\ switchLock.writer = None
    /\ switchLock.pending = {}
    /\ switchLock.readers = {}

CanRLock == switchLock.writer = None /\ switchLock.pending = {}

RLocked(g) == [switchLock EXCEPT !.readers = @ \cup {g}]

RUnlocked(g) == [switchLock EXCEPT !.readers = @ \ {g}]

\* Lock first announces the writer, then waits for the readers to leave.
LockRequested(d) == [switchLock EXCEPT !.pending = @ \cup {d}]

CanLock(d) ==
    /\ d \in switchLock.pending
    /\ switchLock.writer = None
    /\ switchLock.readers = {}

Locked(d) == [switchLock EXCEPT !.writer = d, !.pending = @ \ {d}]

Unlocked(d) == [switchLock EXCEPT !.writer = None]

\* ------------------------------------------------------------ initial state
NoRet == [kind |-> "none", state |-> "", exception |-> "", val |-> 0]

NoInput == [n |-> 0]

\* no response of InvokeFunction yet
NoResp == [err |-> FALSE, State |-> None, FaultException |-> "", Script |-> <<>>,
           GasConsumed |-> 0, Stack |-> <<>>]

LvInit == [held |-> 0, params |-> <<>>, resp |-> NoResp,
           height |-> 0, newHeight |-> 0, sysFee |-> 0,
           ctxDone |-> FALSE, slept |-> FALSE]

StatsInit == [started |-> 0, closes |-> 0, closePanics |-> 0,
              cbCalls |-> 0, cbReturns |-> 0, done |-> 0, swaps |-> 0]

\* The state New leaves behind: an open notification channel, a live
\* connection, nobody holding switchLock.  The callback is optional.
\* the goroutines that use the cache: one reads, one sets, one invalidates
Reader      == "r"
Writer      == "w"
Invalidator == "v"
CacheUsers  == {Reader, Writer, Invalidator}

\* a nil pointer
Nil == "nil"

\* values of the cached facts and identifiers of transactions
NNSHashes == {"h1", "h2"}
GroupKeys == {"k1", "k2"}
TxIds     == {"t1"}

\* the fields of cache that hold a fact
Facts == {"nnsHash", "gKey"}

\* the cache a constructed Client holds: nothing resolved yet
CacheInit ==
    [m         |-> [readers |-> {}, writer |-> None, pending |-> {}],
     nnsHash   |-> Nil,
     gKey      |-> Nil,
     txHeights |-> {}]

\* a goroutine outside the cache; copy is the receiver of a method with a value
\* receiver, stamp the history of the fields it was copied from
KInit ==
    [pc |-> "idle", op |-> None, arg |-> Nil, todo |-> {},
     copy  |-> [f \in Facts |-> Nil],
     stamp |-> [f \in Facts |-> 0]]

\* epoch counts the critical sections of invalidate entered so far, stamp is
\* the epoch of the last write of each field, seen the values the reader got
HistInit ==
    [epoch |-> 0,
     stamp |-> [f \in Facts \cup {"txHeights"} |-> 0],
     seen  |-> <<>>,
     reads |-> 0, sets |-> 0, invalidations |-> 0]

\* the state of a constructed Client whose went-inactive callback is one of cbs
InitClient(cbs) ==
    /\ inactive = FALSE
    /\ notifications = "open"
    /\ client = 0
    /\ switchLock = [readers |-> {}, writer |-> None, pending |-> {}]
    /\ cfg \in [inactiveModeCb : cbs]
    /\ chainHeight = 1
    /\ dpc = "idle"
    /\ stats = StatsInit
    /\ pc = [g \in Frames |-> "idle"]
    /\ op = [g \in Frames |-> None]
    /\ in = [g \in Frames |-> NoInput]
    /\ lv = [g \in Frames |-> LvInit]
    /\ calls = [g \in Frames |-> <<>>]
    /\ ret = [g \in Frames |-> NoRet]
    /\ cache = CacheInit
    /\ kproc = [p \in CacheUsers |-> KInit]
    /\ hist = HistInit

\* no callback, or one that touches nothing of the Client
Init == InitClient({"nil", "set"})

\* the callback may also call BlockCount on the Client that invokes it
InitCallback == InitClient({"set", "BlockCount"})

\* ------------------------------------------------------------ inactiveMode
DriverStep(l, st, lockNew) ==
    /\ dpc' = l
    /\ stats' = st
    /\ switchLock' = lockNew
    /\ UNCHANGED <<client, cfg, chainHeight, cvars, kvars>>

\* The connection loop calls inactiveMode.
imCall ==
    /\ dpc = "idle"
    /\ stats.started < MaxInactive
    /\ DriverStep("im_Lock", [stats EXCEPT !.started = @ + 1], LockRequested(Driver))
    /\ UNCHANGED <<inactive, notifications>>

\* inactiveMode taking the lock without waiting for the readers to leave
imLockShared ==
    /\ dpc = "im_Lock"
    /\ switchLock.writer = None
    /\ DriverStep("im_close", stats, Locked(Driver))
    /\ UNCHANGED <<inactive, notifications>>

\* c.switchLock.Lock(); defer c.switchLock.Unlock()
imLock ==
    /\ dpc = "im_Lock"
    /\ CanLock(Driver)
    /\ DriverStep("im_close", stats, Locked(Driver))
    /\ UNCHANGED <<inactive, notifications>>

\* inactiveMode skipping the close of a channel that is closed already
imCloseGuarded ==
    /\ dpc = "im_close"
    /\ notifications' = "closed"
    /\ DriverStep("im_inactive",
                  [stats EXCEPT !.closes = @ + (IF notifications = "open" THEN 1 ELSE 0)],
                  switchLock)
    /\ UNCHANGED inactive

\* close(c.notifications): closing a closed channel panics, and the
\* deferred Unlock runs while the panic unwinds.
imClose ==
    /\ dpc = "im_close"
    /\ IF notifications = "closed"
       THEN /\ DriverStep("idle", [stats EXCEPT !.closePanics = @ + 1], Unlocked(Driver))
            /\ UNCHANGED <<inactive, notifications>>
       ELSE /\ notifications' = "closed"
            /\ DriverStep("im_inactive", [stats EXCEPT !.closes = @ + 1], switchLock)
            /\ UNCHANGED inactive

\* inactiveMode forgetting to set the flag
imSetInactiveForgotten ==
    /\ dpc = "im_inactive"
    /\ DriverStep("im_cb", stats, switchLock)
    /\ UNCHANGED <<inactive, notifications>>

\* c.inactive = true
imSetInactive ==
    /\ dpc = "im_inactive"
    /\ inactive' = TRUE
    /\ DriverStep("im_cb", stats, switchLock)
    /\ UNCHANGED notifications

\* inactiveMode releasing the lock before it invokes the callback
imCallbackUnlocked ==
    /\ dpc = "im_cb"
    /\ IF cfg.inactiveModeCb # "nil"
       THEN DriverStep("im_cbrun", [stats EXCEPT !.cbCalls = @ + 1], Unlocked(Driver))
       ELSE DriverStep("im_Unlock", stats, switchLock)
    /\ UNCHANGED <<inactive, notifications>>

\* if c.cfg.inactiveModeCb != nil { c.cfg.inactiveModeCb() }
imCallback ==
    /\ dpc = "im_cb"
    /\ IF cfg.inactiveModeCb # "nil"
       THEN DriverStep("im_cbrun", [stats EXCEPT !.cbCalls = @ + 1], switchLock)
       ELSE DriverStep("im_Unlock", stats, switchLock)
    /\ UNCHANGED <<inactive, notifications>>

\* the callback returns, after the operation it called has returned
imCallbackReturn ==
    /\ dpc = "im_cbrun"
    /\ (cfg.inactiveModeCb = "BlockCount" => pc[Callback] = "ret")
    /\ DriverStep("im_Unlock", [stats EXCEPT !.cbReturns = @ + 1], switchLock)
    /\ UNCHANGED <<inactive, notifications>>

\* the deferred c.switchLock.Unlock()
imUnlock ==
    /\ dpc = "im_Unlock"
    /\ DriverStep("idle", [stats EXCEPT !.done = @ + 1], Unlocked(Driver))
    /\ UNCHANGED <<inactive, notifications>>

inactiveMode ==
    \/ imCall
    \/ imLock
    \/ imClose
    \/ imSetInactive
    \/ imCallback
    \/ imCallbackReturn
    \/ imUnlock

\* ----------------------------------------------------------- endpoint switch
\* The reconnect of the connection loop: under the exclusive lock the active
\* connection is replaced by the one dialled to the next endpoint.
switchCall ==
    /\ dpc = "idle"
    /\ ~inactive
    /\ stats.swaps < MaxSwaps
    /\ dpc' = "sw_Lock"
    /\ switchLock' = LockRequested(Driver)
    /\ UNCHANGED <<gvars, stats, cvars, kvars>>

switchLockAcquire ==
    /\ dpc = "sw_Lock"
    /\ CanLock(Driver)
    /\ dpc' = "sw_swap"
    /\ switchLock' = Locked(Driver)
    /\ UNCHANGED <<gvars, stats, cvars, kvars>>

switchSwap ==
    /\ dpc = "sw_swap"
    /\ client' = client + 1
    /\ dpc' = "idle"
    /\ stats' = [stats EXCEPT !.swaps = @ + 1]
    /\ switchLock' = Unlocked(Driver)
    /\ UNCHANGED <<inactive, notifications, cfg, chainHeight, cvars, kvars>>

switchRPC ==
    \/ switchCall
    \/ switchLockAcquire
    \/ switchSwap

\* The chain the connected node follows produces a block.
NewBlock ==
    /\ chainHeight < 1 + MaxBlocks
    /\ chainHeight' = chainHeight + 1
    /\ UNCHANGED <<inactive, notifications, client, cfg, switchLock, dvars, cvars, kvars>>

\* ------------------------------------------------------ the callers' frame
Err(k) == [kind |-> k, state |-> "", exception |-> "", val |-> 0]

ErrConnectionLost == Err("ErrConnectionLost")

Value(v) == [kind |-> "nil", state |-> "", exception |-> "", val |-> v]

\* the connection call rpc, issued on the handle c.client holds now
Issued(g, rpc) == Append(calls[g], [rpc |-> rpc, h |-> client, ok |-> TRUE])

\* the same call, answered with an error
Failed(g, rpc) == Append(calls[g], [rpc |-> rpc, h |-> client, ok |-> FALSE])

CallerStep(g, l, r, loc, cs, lockNew) ==
    /\ pc' = [pc EXCEPT ![g] = l]
    /\ ret' = [ret EXCEPT ![g] = r]
    /\ lv' = [lv EXCEPT ![g] = loc]
    /\ calls' = [calls EXCEPT ![g] = cs]
    /\ switchLock' = lockNew
    /\ UNCHANGED <<op, in, gvars, dvars, kvars>>

\* a return statement: the value is set and the deferred RUnlock runs
Return(g, r, loc, cs) == CallerStep(g, "ret", r, loc, cs, RUnlocked(g))

Goto(g, l, loc, cs) == CallerStep(g, l, ret[g], loc, cs, switchLock)

\* a caller starts operation o with inputs i
Enter(g, o, i) ==
    /\ pc[g] = "idle"
    /\ pc' = [pc EXCEPT ![g] = "RLock"]
    /\ op' = [op EXCEPT ![g] = o]
    /\ in' = [in EXCEPT ![g] = i]
    /\ UNCHANGED <<lv, calls, ret, switchLock, gvars, dvars, kvars>>

\* a lock that lets the goroutine holding it for writing take it for reading
RLockReentrant(g) ==
    /\ pc[g] = "RLock"
    /\ CanRLock \/ (g = Callback /\ switchLock.writer = Driver)
    /\ CallerStep(g, "inactive", ret[g], [lv[g] EXCEPT !.held = client], calls[g], RLocked(g))

\* c.switchLock.RLock(); defer c.switchLock.RUnlock()
RLock(g) ==
    /\ pc[g] = "RLock"
    /\ CanRLock
    /\ CallerStep(g, "inactive", ret[g], [lv[g] EXCEPT !.held = client], calls[g], RLocked(g))

\* an operation that never looks at the flag
CheckInactiveSkipped(g, next) ==
    /\ pc[g] = "inactive"
    /\ Goto(g, next, lv[g], calls[g])

\* an operation that releases the shared lock right after the check
CheckInactiveUnlocking(g, next) ==
    /\ pc[g] = "inactive"
    /\ IF inactive
       THEN Return(g, ErrConnectionLost, lv[g], calls[g])
       ELSE CallerStep(g, next, ret[g], lv[g], calls[g], RUnlocked(g))

\* if c.inactive { return ErrConnectionLost }
CheckInactive(g, next) ==
    /\ pc[g] = "inactive"
    /\ IF inactive
       THEN Return(g, ErrConnectionLost, lv[g], calls[g])
       ELSE Goto(g, next, lv[g], calls[g])

\* the caller has taken the returned value; the goroutine is free again
Finish(g) ==
    /\ pc[g] = "ret"
    /\ pc' = [pc EXCEPT ![g] = "idle"]
    /\ op' = [op EXCEPT ![g] = None]
    /\ in' = [in EXCEPT ![g] = NoInput]
    /\ lv' = [lv EXCEPT ![g] = LvInit]
    /\ calls' = [calls EXCEPT ![g] = <<>>]
    /\ ret' = [ret EXCEPT ![g] = NoRet]
    /\ UNCHANGED <<switchLock, gvars, dvars, kvars>>

\* a query that is issued once more when it fails
QueryRetrying(g, at, rpc, okVals) ==
    /\ pc[g] = at
    /\ \/ Return(g, Err("transport"), lv[g],
                 Append(Failed(g, rpc), [rpc |-> rpc, h |-> client, ok |-> FALSE]))
       \/ \E v \in okVals : Return(g, Value(v), lv[g], Issued(g, rpc))

\* one query on the connection whose error is returned as it is
Query(g, at, rpc, okVals) ==
    /\ pc[g] = at
    /\ \/ Return(g, Err("transport"), lv[g], Failed(g, rpc))
       \/ \E v \in okVals : Return(g, Value(v), lv[g], Issued(g, rpc))

\* ------------------------------------------------------ single-query reads
Committee(g) ==
    \/ Enter(g, "Committee", NoInput)
    \/ /\ op[g] = "Committee"
       /\ \/ RLock(g)
          \/ CheckInactive(g, "GetCommittee")
          \/ Query(g, "GetCommittee", "GetCommittee", {"keys"})
          \/ Finish(g)

TxHeight(g) ==
    \/ Enter(g, "TxHeight", NoInput)
    \/ /\ op[g] = "TxHeight"
       /\ \/ RLock(g)
          \/ CheckInactive(g, "GetTransactionHeight")
          \/ Query(g, "GetTransactionHeight", "GetTransactionHeight", 1..chainHeight)
          \/ Finish(g)

GetDesignateHash(g) ==
    \/ Enter(g, "GetDesignateHash", NoInput)
    \/ /\ op[g] = "GetDesignateHash"
       /\ \/ RLock(g)
          \/ CheckInactive(g, "GetNativeContractHash")
          \/ Query(g, "GetNativeContractHash", "GetNativeContractHash", {"hash"})
          \/ Finish(g)

BlockCount(g) ==
    \/ Enter(g, "BlockCount", NoInput)
    \/ /\ op[g] = "BlockCount"
       /\ \/ RLock(g)
          \/ CheckInactive(g, "GetBlockCount")
          \/ Query(g, "GetBlockCount", "GetBlockCount", {chainHeight})
          \/ Finish(g)

\* c.cfg.inactiveModeCb() where the callback calls c.BlockCount(): the call
\* runs inside inactiveMode, on its goroutine
callbackBlockCount ==
    /\ dpc = "im_cbrun"
    /\ cfg.inactiveModeCb = "BlockCount"
    /\ pc[Callback] # "ret"
    /\ BlockCount(Callback)

\* fmt.Errorf("...: %w", err)
Wrapped(e) == [e EXCEPT !.kind = "wrapped:" \o e.kind]

MsPerBlock(g) ==
    \/ Enter(g, "MsPerBlock", NoInput)
    \/ /\ op[g] = "MsPerBlock"
       /\ \/ RLock(g)
          \/ CheckInactive(g, "GetVersion")
          \/ /\ pc[g] = "GetVersion"
             /\ \/ Return(g, Wrapped(Err("transport")), lv[g], Failed(g, "GetVersion"))
                \/ Return(g, Value("ms"), lv[g], Issued(g, "GetVersion"))
          \/ Finish(g)

IsValidScript(g) ==
    \/ Enter(g, "IsValidScript", NoInput)
    \/ /\ op[g] = "IsValidScript"
       /\ \/ RLock(g)
          \/ CheckInactive(g, "InvokeScript")
          \/ /\ pc[g] = "InvokeScript"
             /\ \/ Return(g, Wrapped(Err("transport")), lv[g], Failed(g, "InvokeScript"))
                \/ \E state \in {HaltState, "FAULT"} :
                     Return(g, Value(state = HaltState), lv[g], Issued(g, "InvokeScript"))
          \/ Finish(g)

TxHalt(g) ==
    \/ Enter(g, "TxHalt", NoInput)
    \/ /\ op[g] = "TxHalt"
       /\ \/ RLock(g)
          \/ CheckInactive(g, "GetApplicationLog")
          \/ /\ pc[g] = "GetApplicationLog"
             /\ \/ Return(g, Err("transport"), lv[g], Failed(g, "GetApplicationLog"))
                \/ \E aer \in {<<>>, <<HaltState>>, <<"FAULT">>} :
                     Return(g, Value(Len(aer) > 0 /\ aer[1] = HaltState), lv[g],
                            Issued(g, "GetApplicationLog"))
          \/ Finish(g)

\* panic(err) when GetNetwork fails; the deferred RUnlock runs
MagicNumber(g) ==
    \/ Enter(g, "MagicNumber", NoInput)
    \/ /\ op[g] = "MagicNumber"
       /\ \/ RLock(g)
          \/ CheckInactive(g, "GetNetwork")
          \/ /\ pc[g] = "GetNetwork"
             /\ \/ Return(g, Err("panic"), lv[g], Failed(g, "GetNetwork"))
                \/ Return(g, Value("magic"), lv[g], Issued(g, "GetNetwork"))
          \/ Finish(g)

\* ------------------------------------------------------- two-query operations
\* a query whose error is logged and then ignored
QueryThenSwallowing(g, at, rpc, e, next) ==
    /\ pc[g] = at
    /\ \/ Goto(g, next, lv[g], Failed(g, rpc))
       \/ Goto(g, next, lv[g], Issued(g, rpc))

\* a query whose error ends the operation and whose success leads to next
QueryThen(g, at, rpc, e, next) ==
    /\ pc[g] = at
    /\ \/ Return(g, e, lv[g], Failed(g, rpc))
       \/ Goto(g, next, lv[g], Issued(g, rpc))

TransferGas(g) ==
    \/ Enter(g, "TransferGas", NoInput)
    \/ /\ op[g] = "TransferGas"
       /\ \/ RLock(g)
          \/ CheckInactive(g, "GetNativeContractHash")
          \/ QueryThen(g, "GetNativeContractHash", "GetNativeContractHash",
                       Err("transport"), "TransferNEP17")
          \/ /\ pc[g] = "TransferNEP17"
             /\ \/ Return(g, Err("transport"), lv[g], Failed(g, "TransferNEP17"))
                \/ Return(g, Value("nil"), lv[g], Issued(g, "TransferNEP17"))
          \/ Finish(g)

GasBalance(g) ==
    \/ Enter(g, "GasBalance", NoInput)
    \/ /\ op[g] = "GasBalance"
       /\ \/ RLock(g)
          \/ CheckInactive(g, "GetNativeContractHash")
          \/ QueryThen(g, "GetNativeContractHash", "GetNativeContractHash",
                       Err("transport"), "NEP17BalanceOf")
          \/ Query(g, "NEP17BalanceOf", "NEP17BalanceOf", {"balance"})
          \/ Finish(g)

\* NeoFSAlphabetList with roleList inlined: the height, then the role members
NeoFSAlphabetList(g) ==
    \/ Enter(g, "NeoFSAlphabetList", NoInput)
    \/ /\ op[g] = "NeoFSAlphabetList"
       /\ \/ RLock(g)
          \/ CheckInactive(g, "GetBlockCount")
          \/ QueryThen(g, "GetBlockCount", "GetBlockCount",
                       Wrapped(Wrapped(Err("transport"))), "GetDesignatedByRole")
          \/ /\ pc[g] = "GetDesignatedByRole"
             /\ \/ Return(g, Wrapped(Err("transport")), lv[g], Failed(g, "GetDesignatedByRole"))
                \/ Return(g, Value("keys"), lv[g], Issued(g, "GetDesignatedByRole"))
          \/ Finish(g)

\* -------------------------------------------------------- toStackParameter
\* An argument is [kind, v]: its Go type and its value.
Arg(k, v) == [kind |-> k, v |-> v]

\* sc.Parameter{Type, Value}
Parameter(t, v) == [Type |-> t, Value |-> v]

\* big.NewInt(int64(v)) and new(big.Int).SetUint64(v)
BigInt(v) == [big |-> v]

\* keys.PublicKey.Bytes(): the encoding of key k
KeyBytes(k) == <<3, k>>

\* (sc.Parameter, error): result keeps Value: value when the kind is unknown
RECURSIVE toStackParameter(_)
toStackParameter(value) ==
    LET k == value.kind
        v == value.v
    IN CASE k = "[]byte" -> [param |-> Parameter("ByteArray", v), err |-> None]
         [] k \in {"int", "int64", "uint64", "noderoles.Role"} ->
                [param |-> Parameter("Integer", BigInt(v)), err |-> None]
         [] k = "[][]byte" ->
                LET elem == [i \in 1..Len(v) |-> toStackParameter(Arg("[]byte", v[i]))]
                    bad  == {i \in 1..Len(v) : elem[i].err # None}
                IN IF bad # {}
                   THEN [param |-> Parameter(None, v),
                         err |-> elem[CHOOSE i \in bad : \A j \in bad : i <= j].err]
                   ELSE [param |-> Parameter("Array", [i \in 1..Len(v) |-> elem[i].param]),
                         err |-> None]
         [] k = "string" -> [param |-> Parameter("String", v), err |-> None]
         [] k = "util.Uint160" -> [param |-> Parameter("ByteArray", <<v>>), err |-> None]
         [] k = "keys.PublicKeys" ->
                toStackParameter(Arg("[][]byte", [i \in 1..Len(v) |-> KeyBytes(v[i])]))
         [] k = "bool" -> [param |-> Parameter("Bool", v), err |-> None]
         [] OTHER -> [param |-> Parameter(None, v), err |-> "unsupportedParameter"]

\* for i := range args { param, err := toStackParameter(args[i]); ... }
RECURSIVE ConvertFrom(_, _, _)
ConvertFrom(args, i, params) ==
    IF i > Len(args)
    THEN [params |-> params, err |-> None]
    ELSE LET r == toStackParameter(args[i])
         IN IF r.err # None
            THEN [params |-> params, err |-> r.err]
            ELSE ConvertFrom(args, i + 1, Append(params, r.param))

\* a conversion loop that continues past a failed conversion
ConvertArgsIgnoringErrors(g, next) ==
    /\ pc[g] = "params"
    /\ LET conv == ConvertFrom(in[g].args, 1, <<>>)
       IN Goto(g, next, [lv[g] EXCEPT !.params = conv.params], calls[g])

\* the conversion loop of Invoke and TestInvoke: the first error is returned
ConvertArgs(g, next) ==
    /\ pc[g] = "params"
    /\ LET conv == ConvertFrom(in[g].args, 1, <<>>)
       IN IF conv.err # None
          THEN Return(g, Err(conv.err), lv[g], calls[g])
          ELSE Goto(g, next, [lv[g] EXCEPT !.params = conv.params], calls[g])

\* ------------------------------------------------------ Invoke, TestInvoke
\* wrapNeoFSError(&notHaltStateError{state, exception})
NotHaltStateError(state, exception) ==
    [kind |-> "notHaltState", state |-> state, exception |-> exception, val |-> 0]

\* int64 addition
AddInt64(a, b) == ((a + b + Int64Mod \div 2) % Int64Mod) - Int64Mod \div 2

\* an Invoke that does not look at the state of the local execution
InvokeLocalAnyState(g, D) ==
    /\ pc[g] = "InvokeFunction"
    /\ \E resp \in D.resps :
         LET loc == [lv[g] EXCEPT !.resp = resp]
             cs  == IF resp.err THEN Failed(g, "InvokeFunction")
                    ELSE Issued(g, "InvokeFunction")
         IN IF resp.err
            THEN Return(g, Err("transport"), loc, cs)
            ELSE IF Len(resp.Script) = 0
            THEN Return(g, Err("emptyInvocationScript"), loc, cs)
            ELSE Goto(g, "SignAndPushInvocationTx",
                      [loc EXCEPT !.sysFee = AddInt64(resp.GasConsumed, in[g].fee)], cs)

\* c.client.InvokeFunction and what Invoke does with the response
InvokeLocal(g, D) ==
    /\ pc[g] = "InvokeFunction"
    /\ \E resp \in D.resps :
         LET loc == [lv[g] EXCEPT !.resp = resp]
             cs  == IF resp.err THEN Failed(g, "InvokeFunction")
                    ELSE Issued(g, "InvokeFunction")
         IN IF resp.err
            THEN Return(g, Err("transport"), loc, cs)
            ELSE IF resp.State # HaltState
            THEN Return(g, NotHaltStateError(resp.State, resp.FaultException), loc, cs)
            ELSE IF Len(resp.Script) = 0
            THEN Return(g, Err("emptyInvocationScript"), loc, cs)
            ELSE Goto(g, "SignAndPushInvocationTx",
                      [loc EXCEPT !.sysFee = AddInt64(resp.GasConsumed, in[g].fee)], cs)

\* c.client.SignAndPushInvocationTx(script, c.acc, sysFee, 0, cosignerAcc)
InvokePush(g) ==
    /\ pc[g] = "SignAndPushInvocationTx"
    /\ \/ Return(g, Err("transport"), lv[g], Failed(g, "SignAndPushInvocationTx"))
       \/ Return(g, Value("nil"), lv[g], Issued(g, "SignAndPushInvocationTx"))

Invoke(g, D) ==
    \/ /\ pc[g] = "idle"
       /\ \E fee \in D.fees, args \in D.args :
            Enter(g, "Invoke", [fee |-> fee, args |-> args])
    \/ /\ op[g] = "Invoke"
       /\ \/ RLock(g)
          \/ CheckInactive(g, "params")
          \/ ConvertArgs(g, "InvokeFunction")
          \/ InvokeLocal(g, D)
          \/ InvokePush(g)
          \/ Finish(g)

TestInvoke(g, D) ==
    \/ /\ pc[g] = "idle"
       /\ \E args \in D.args : Enter(g, "TestInvoke", [args |-> args])
    \/ /\ op[g] = "TestInvoke"
       /\ \/ RLock(g)
          \/ CheckInactive(g, "params")
          \/ ConvertArgs(g, "InvokeFunction")
          \/ /\ pc[g] = "InvokeFunction"
             /\ \E val \in D.resps :
                  LET loc == [lv[g] EXCEPT !.resp = val]
                      cs  == IF val.err THEN Failed(g, "InvokeFunction")
                             ELSE Issued(g, "InvokeFunction")
                  IN IF val.err
                     THEN Return(g, Err("transport"), loc, cs)
                     ELSE IF val.State # HaltState
                     THEN Return(g, NotHaltStateError(val.State, val.FaultException), loc, cs)
                     ELSE Return(g, Value(val.Stack), loc, cs)
          \/ Finish(g)

\* ------------------------------------------------------------------- Wait
\* ctx.Done() is readable: the context was cancelled before or during the call
CtxDone(g) == in[g].cancelled \/ lv[g].ctxDone

\* height, err = c.client.GetBlockCount()
WaitFirst(g) ==
    /\ pc[g] = "GetBlockCount"
    /\ \/ Return(g, Value("nil"), lv[g], Failed(g, "GetBlockCount"))
       \/ Goto(g, "select", [lv[g] EXCEPT !.height = chainHeight], Issued(g, "GetBlockCount"))

\* a Wait that polls once more before it looks at the context
WaitSelectAfterPoll(g) ==
    /\ pc[g] = "select"
    /\ IF CtxDone(g) /\ Len(calls[g]) > 1
       THEN Return(g, Value("nil"), lv[g], calls[g])
       ELSE Goto(g, "poll", lv[g], calls[g])

\* select { case <-ctx.Done(): return nil; default: }
WaitSelect(g) ==
    /\ pc[g] = "select"
    /\ IF CtxDone(g)
       THEN Return(g, Value("nil"), lv[g], calls[g])
       ELSE Goto(g, "poll", lv[g], calls[g])

\* a Wait that returns the error of a failed poll
WaitPollSurfacing(g) ==
    /\ pc[g] = "poll"
    /\ Len(calls[g]) < MaxCalls
    /\ \/ Return(g, Err("transport"), lv[g], Failed(g, "GetBlockCount"))
       \/ LET loc == [lv[g] EXCEPT !.newHeight = chainHeight]
          IN IF chainHeight >= (lv[g].height + in[g].n) % Uint32Mod
             THEN Return(g, Value("nil"), loc, Issued(g, "GetBlockCount"))
             ELSE Goto(g, "Sleep", loc, Issued(g, "GetBlockCount"))

\* newHeight, err = c.client.GetBlockCount(); if newHeight >= height+n
WaitPoll(g) ==
    /\ pc[g] = "poll"
    /\ Len(calls[g]) < MaxCalls
    /\ \/ Return(g, Value("nil"), lv[g], Failed(g, "GetBlockCount"))
       \/ LET loc == [lv[g] EXCEPT !.newHeight = chainHeight]
          IN IF chainHeight >= (lv[g].height + in[g].n) % Uint32Mod
             THEN Return(g, Value("nil"), loc, Issued(g, "GetBlockCount"))
             ELSE Goto(g, "Sleep", loc, Issued(g, "GetBlockCount"))

\* a Wait that gives the shared lock back before it sleeps
WaitSleepUnlocked(g) ==
    /\ pc[g] = "Sleep"
    /\ CallerStep(g, "select", ret[g], [lv[g] EXCEPT !.slept = TRUE], calls[g], RUnlocked(g))

\* time.Sleep(c.cfg.waitInterval)
WaitSleep(g) ==
    /\ pc[g] = "Sleep"
    /\ Goto(g, "select", [lv[g] EXCEPT !.slept = TRUE], calls[g])

\* the caller cancels the context it passed to Wait
Cancel(g) ==
    /\ op[g] = "Wait"
    /\ pc[g] \notin {"idle", "ret"}
    /\ ~CtxDone(g)
    /\ lv' = [lv EXCEPT ![g].ctxDone = TRUE]
    /\ UNCHANGED <<pc, op, in, calls, ret, switchLock, gvars, dvars, kvars>>

Wait(g, D) ==
    \/ /\ pc[g] = "idle"
       /\ \E n \in D.ns, c \in BOOLEAN : Enter(g, "Wait", [n |-> n, cancelled |-> c])
    \/ /\ op[g] = "Wait"
       /\ \/ RLock(g)
          \/ CheckInactive(g, "GetBlockCount")
          \/ WaitFirst(g)
          \/ WaitSelect(g)
          \/ WaitPoll(g)
          \/ WaitSleep(g)
          \/ Cancel(g)
          \/ Finish(g)

\* ------------------------------------------------------------------ cache
\* cache.m is a *sync.RWMutex: every copy of the struct shares the one lock.
MCanRLock == cache.m.writer = None /\ cache.m.pending = {}

MCanLock(p) ==
    /\ p \in cache.m.pending
    /\ cache.m.writer = None
    /\ cache.m.readers = {}

\* one step of goroutine p on the cache
KStep(p, pr, c, h) ==
    /\ kproc' = [kproc EXCEPT ![p] = pr]
    /\ cache' = c
    /\ hist' = h
    /\ UNCHANGED <<switchLock, gvars, dvars, cvars>>

\* the field a read accessor returns
FieldOf(o) == IF o = "nns" THEN "nnsHash" ELSE "gKey"

\* c.cache.nns(), c.cache.groupKey(): the call of a method with a value receiver
readCall(p, o) ==
    /\ kproc[p].pc = "idle"
    /\ hist.reads < MaxReads
    /\ KStep(p, [kproc[p] EXCEPT !.pc = "copy", !.op = o, !.todo = Facts],
             cache, [hist EXCEPT !.reads = @ + 1])

\* func (c cache): the receiver is a copy of the struct, made field by field
\* before the body runs, with no lock held
copyField(p) ==
    /\ kproc[p].pc = "copy"
    /\ \E f \in kproc[p].todo :
         KStep(p, [kproc[p] EXCEPT !.copy[f] = cache[f],
                                   !.stamp[f] = hist.stamp[f],
                                   !.todo = @ \ {f},
                                   !.pc = IF kproc[p].todo = {f} THEN "RLock" ELSE "copy"],
               cache, hist)

\* c.m.RLock(); defer c.m.RUnlock()
readRLock(p) ==
    /\ kproc[p].pc = "RLock"
    /\ MCanRLock
    /\ KStep(p, [kproc[p] EXCEPT !.pc = "return"],
             [cache EXCEPT !.m.readers = @ \cup {p}], hist)

\* return c.nnsHash, return c.gKey: the field of the copy
readReturn(p) ==
    /\ kproc[p].pc = "return"
    /\ LET f == FieldOf(kproc[p].op)
       IN KStep(p, KInit,
                [cache EXCEPT !.m.readers = @ \ {p}],
                [hist EXCEPT !.seen = Append(@, [f     |-> f,
                                                 val   |-> kproc[p].copy[f],
                                                 epoch |-> kproc[p].stamp[f]])])

nns(p) ==
    \/ readCall(p, "nns")
    \/ /\ kproc[p].op = "nns"
       /\ (copyField(p) \/ readRLock(p) \/ readReturn(p))

groupKey(p) ==
    \/ readCall(p, "groupKey")
    \/ /\ kproc[p].op = "groupKey"
       /\ (copyField(p) \/ readRLock(p) \/ readReturn(p))

\* the call of a setter: Lock announces the writer
setCall(p, o, v) ==
    /\ kproc[p].pc = "idle"
    /\ hist.sets < MaxSets
    /\ KStep(p, [kproc[p] EXCEPT !.pc = "Lock", !.op = o, !.arg = v],
             [cache EXCEPT !.m.pending = @ \cup {p}],
             [hist EXCEPT !.sets = @ + 1])

\* c.m.Lock(); defer c.m.Unlock()
setLock(p) ==
    /\ kproc[p].pc = "Lock"
    /\ MCanLock(p)
    /\ KStep(p, [kproc[p] EXCEPT !.pc = "write"],
             [cache EXCEPT !.m.writer = p, !.m.pending = @ \ {p}], hist)

\* a setter that also drops the other fact
setWriteClearingOther(p, f) ==
    /\ kproc[p].pc = "write"
    /\ KStep(p, [kproc[p] EXCEPT !.pc = "Unlock"],
             [g \in DOMAIN cache |->
                 IF g = f THEN kproc[p].arg
                 ELSE IF g \in Facts THEN Nil
                 ELSE cache[g]],
             [hist EXCEPT !.stamp[f] = hist.epoch])

\* c.nnsHash = &nnsHash, c.gKey = groupKey
setWrite(p, f) ==
    /\ kproc[p].pc = "write"
    /\ KStep(p, [kproc[p] EXCEPT !.pc = "Unlock"],
             [cache EXCEPT ![f] = kproc[p].arg],
             [hist EXCEPT !.stamp[f] = hist.epoch])

\* the deferred c.m.Unlock()
cacheUnlock(p) ==
    /\ kproc[p].pc = "Unlock"
    /\ KStep(p, KInit, [cache EXCEPT !.m.writer = None], hist)

setNNSHash(p) ==
    \/ \E v \in NNSHashes : setCall(p, "setNNSHash", v)
    \/ /\ kproc[p].op = "setNNSHash"
       /\ (setLock(p) \/ setWrite(p, "nnsHash") \/ cacheUnlock(p))

setGroupKey(p) ==
    \/ \E v \in GroupKeys : setCall(p, "setGroupKey", v)
    \/ /\ kproc[p].op = "setGroupKey"
       /\ (setLock(p) \/ setWrite(p, "gKey") \/ cacheUnlock(p))

\* the height of a transaction is stored in the bounded mapping, which has a
\* lock of its own
txHeightsAdd(p) ==
    /\ kproc[p].pc = "idle"
    /\ hist.sets < MaxSets
    /\ \E t \in TxIds :
         KStep(p, kproc[p],
               [cache EXCEPT !.txHeights = @ \cup {t}],
               [hist EXCEPT !.sets = @ + 1, !.stamp["txHeights"] = hist.epoch])

invalidateCall(p) ==
    /\ kproc[p].pc = "idle"
    /\ hist.invalidations < MaxInvalidate
    /\ KStep(p, [kproc[p] EXCEPT !.pc = "Lock", !.op = "invalidate"],
             [cache EXCEPT !.m.pending = @ \cup {p}],
             [hist EXCEPT !.invalidations = @ + 1])

\* c.m.Lock(); defer c.m.Unlock()
invalidateLock(p) ==
    /\ kproc[p].pc = "Lock"
    /\ MCanLock(p)
    /\ KStep(p, [kproc[p] EXCEPT !.pc = "nnsHash"],
             [cache EXCEPT !.m.writer = p, !.m.pending = @ \ {p}],
             [hist EXCEPT !.epoch = @ + 1])

\* an invalidate that gives the lock back after the first field
invalidateNNSUnlocking(p) ==
    /\ kproc[p].pc = "nnsHash"
    /\ KStep(p, [kproc[p] EXCEPT !.pc = "gKey"],
             [cache EXCEPT !.nnsHash = Nil, !.m.writer = None],
             [hist EXCEPT !.stamp["nnsHash"] = hist.epoch])

\* c.nnsHash = nil
invalidateNNS(p) ==
    /\ kproc[p].pc = "nnsHash"
    /\ KStep(p, [kproc[p] EXCEPT !.pc = "gKey"],
             [cache EXCEPT !.nnsHash = Nil],
             [hist EXCEPT !.stamp["nnsHash"] = hist.epoch])

\* c.gKey = nil
invalidateGKey(p) ==
    /\ kproc[p].pc = "gKey"
    /\ KStep(p, [kproc[p] EXCEPT !.pc = "Purge"],
             [cache EXCEPT !.gKey = Nil],
             [hist EXCEPT !.stamp["gKey"] = hist.epoch])

\* c.txHeights.Purge()
invalidatePurge(p) ==
    /\ kproc[p].pc = "Purge"
    /\ KStep(p, [kproc[p] EXCEPT !.pc = "Unlock"],
             [cache EXCEPT !.txHeights = {}],
             [hist EXCEPT !.stamp["txHeights"] = hist.epoch])

invalidate(p) ==
    \/ invalidateCall(p)
    \/ /\ kproc[p].op = "invalidate"
       /\ \/ invalidateLock(p)
          \/ invalidateNNS(p)
          \/ invalidateGKey(p)
          \/ invalidatePurge(p)
          \/ cacheUnlock(p)

\* ------------------------------------------------------------ input domains
\* what InvokeFunction may answer
Response(e, state, exc, script, gas) ==
    [err |-> e, State |-> state, FaultException |-> exc, Script |-> script,
     GasConsumed |-> gas, Stack |-> <<>>]

\* the concurrent callers draw from a sample of the inputs
Sample ==
    [fees  |-> {1},
     args  |-> {<<Arg("string", "s")>>, <<Arg("uint32", 7)>>},
     ns    |-> {0, 1},
     resps |-> {Response(TRUE, "", "", <<>>, 0),
                Response(FALSE, "FAULT", "boom", <<1>>, 1),
                Response(FALSE, HaltState, "", <<>>, 1),
                Response(FALSE, HaltState, "", <<1>>, 1)}]

\* one value of every kind the type switch names, and three it does not
ArgValues ==
    {Arg("[]byte", <<1>>), Arg("int", 1), Arg("int64", 1), Arg("uint64", 1),
     Arg("[][]byte", << <<1>>, <<>> >>), Arg("string", "s"), Arg("util.Uint160", 5),
     Arg("noderoles.Role", 2), Arg("keys.PublicKeys", <<1, 2>>), Arg("bool", TRUE),
     Arg("uint32", 7), Arg("float64", 1), Arg("[]string", <<"a">>)}

ArgLists == UNION {[1..n -> ArgValues] : n \in 0..MaxArgs}

\* a lone caller converting every argument list
Conversions ==
    [fees  |-> {1},
     args  |-> ArgLists,
     ns    |-> {1},
     resps |-> {Response(TRUE, "", "", <<>>, 0),
                Response(FALSE, HaltState, "", <<1>>, 1)}]

\* a lone caller invoking against every answer of the node, with every fee
Executions ==
    [fees  |-> {0, 1, Int64Max},
     args  |-> {<<>>, <<Arg("string", "s"), Arg("int64", 1)>>, <<Arg("uint32", 7)>>},
     ns    |-> {1},
     resps |-> {Response(TRUE, "", "", <<>>, 0),
                Response(FALSE, "FAULT", "boom", <<>>, 1),
                Response(FALSE, "FAULT", "boom", <<1>>, 1),
                Response(FALSE, HaltState, "", <<>>, 1)}
               \cup {Response(FALSE, HaltState, "", <<1>>, gas) : gas \in {0, 1, Int64Max}}]

\* a lone caller waiting for every number of blocks
Polls ==
    [fees  |-> {1},
     args  |-> {<<>>},
     ns    |-> {0, 1, 2, Uint32Mod - 1},
     resps |-> {Response(TRUE, "", "", <<>>, 0)}]

Solo == "g1"

Next ==
    \/ inactiveMode
    \/ switchRPC
    \/ \E g \in Callers :
        \/ Invoke(g, Sample)
        \/ TestInvoke(g, Sample)
        \/ TransferGas(g)
        \/ Wait(g, Sample)
        \/ GasBalance(g)
        \/ Committee(g)
        \/ TxHalt(g)
        \/ TxHeight(g)
        \/ NeoFSAlphabetList(g)
        \/ GetDesignateHash(g)
        \/ MagicNumber(g)
        \/ BlockCount(g)
        \/ MsPerBlock(g)
        \/ IsValidScript(g)

Spec == Init /\ [][Next]_vars

\* one caller converting arguments, while the client may go inactive
NextArgs ==
    \/ inactiveMode
    \/ Invoke(Solo, Conversions)
    \/ TestInvoke(Solo, Conversions)

SpecArgs == Init /\ [][NextArgs]_vars

\* one caller invoking, while the client may go inactive
NextInvoke ==
    \/ inactiveMode
    \/ Invoke(Solo, Executions)
    \/ TestInvoke(Solo, Executions)

SpecInvoke == Init /\ [][NextInvoke]_vars

\* one caller waiting on a growing chain, while the client may go inactive
NextWait ==
    \/ inactiveMode
    \/ NewBlock
    \/ Wait(Solo, Polls)

SpecWait == Init /\ [][NextWait]_vars

\* one goroutine reading the cache, one setting facts, one invalidating
NextCache ==
    \/ nns(Reader)
    \/ groupKey(Reader)
    \/ setNNSHash(Writer)
    \/ setGroupKey(Writer)
    \/ txHeightsAdd(Writer)
    \/ invalidate(Invalidator)

SpecCache == Init /\ [][NextCache]_vars

\* the client goes inactive while two callers ask for the block count; the
\* callback may ask for it too
NextCallback ==
    \/ inactiveMode
    \/ callbackBlockCount
    \/ \E g \in Callers : BlockCount(g)

SpecCallback == InitCallback /\ [][NextCallback]_vars

\* ================================================================ claims
\* a caller holds the shared lock and is between its RLock and its return
InFlight(g) == pc[g] \notin {"idle", "RLock", "ret"}

\* a caller has read c.inactive as false and runs the body of its operation
PastCheck(g) == pc[g] \notin {"idle", "RLock", "inactive", "ret"}

\* the driver is inside the critical section of inactiveMode
InTransition == dpc \in {"im_close", "im_inactive", "im_cb", "im_cbrun", "im_Unlock"}

\* C1: once inactiveMode has completed, every operation that returns returns
\* ErrConnectionLost, no operation issues a call on the connection, and the
\* inactive flag is never reset.
C1_InactiveIsTerminal ==
    [][/\ (inactive => inactive')
       /\ (stats.done > 0 =>
             \A g \in Callers :
                /\ Len(calls'[g]) <= Len(calls[g])
                /\ (pc[g] # "ret" /\ pc'[g] = "ret" =>
                       /\ ret'[g].kind = "ErrConnectionLost"
                       /\ calls'[g] = <<>>))]_vars

\* both callers were answered ErrConnectionLost after the transition completed
C1_Witness ==
    /\ stats.done > 0
    /\ inactive
    /\ \A g \in Callers :
         pc[g] = "ret" /\ ret[g].kind = "ErrConnectionLost" /\ calls[g] = <<>>
    /\ op["g1"] = "Invoke"
    /\ op["g2"] = "Wait"

\* C2: however often the transition to inactive mode is driven, the
\* notification channel is closed exactly once and no transition attempts to
\* close the channel when it is closed already.
C2_ClosedExactlyOnce ==
    /\ stats.closes <= 1
    /\ stats.closePanics = 0
    /\ (inactive => stats.closes = 1)

\* C3: however often the transition is driven, the callback is invoked at most
\* once, and it runs inside the critical section that set the inactive flag:
\* from the assignment of the flag to the return of the callback the driver
\* holds the exclusive lock.
C3_CallbackAtMostOnce ==
    /\ stats.cbCalls <= 1
    /\ stats.cbReturns <= stats.cbCalls
    /\ (dpc \in {"im_inactive", "im_cb", "im_cbrun", "im_Unlock"} =>
           switchLock.writer = Driver)
    /\ (dpc = "im_cbrun" => inactive /\ switchLock.readers = {})

\* the transition was driven twice and the callback has run once
C3_Witness ==
    /\ cfg.inactiveModeCb # "nil"
    /\ stats.started = 2
    /\ stats.closePanics = 1
    /\ stats.cbCalls = 1
    /\ stats.cbReturns = 1
    /\ dpc = "idle"

\* C4: whenever nobody holds the exclusive lock the channel is closed exactly
\* when the inactive flag is set, the channel is never closed before the
\* transition, and a closed channel stays closed.
C4_ClosedIffInactive ==
    /\ [](/\ (switchLock.writer = None => (notifications = "closed" <=> inactive))
          /\ (notifications = "closed" => stats.closes = 1 /\ stats.started >= 1))
    /\ [][notifications = "closed" => notifications' = "closed"]_vars

\* the transition has completed: the channel is closed, the flag set, the lock free
C4_Witness ==
    /\ switchLock.writer = None
    /\ dpc = "idle"
    /\ stats.done = 1
    /\ notifications = "closed"
    /\ inactive

\* C5: with a callback configured no operation returns ErrConnectionLost, and
\* no caller holding the shared lock can read the flag as set, before the
\* callback has been invoked and has returned.
C5_CallbackBeforeObservation ==
    cfg.inactiveModeCb # "nil" =>
        \A g \in Callers :
           /\ (pc[g] = "ret" /\ ret[g].kind = "ErrConnectionLost" => stats.cbReturns >= 1)
           /\ (InFlight(g) /\ inactive => stats.cbReturns >= 1)

\* a caller was answered ErrConnectionLost by a client with a callback
C5_Witness ==
    /\ cfg.inactiveModeCb # "nil"
    /\ stats.cbReturns = 1
    /\ \E g \in Callers :
         pc[g] = "ret" /\ ret[g].kind = "ErrConnectionLost" /\ op[g] = "BlockCount"

\* C6: while the driver is inside the transition no call is in flight; a call
\* that has passed the inactive check runs on an active client with an open
\* channel until it returns; and a call holding the shared lock after the
\* transition closed the channel reads the flag as set.
C6_TransitionExcludesCalls ==
    /\ (InTransition => \A g \in Callers : ~InFlight(g))
    /\ \A g \in Callers :
         /\ (PastCheck(g) => ~inactive /\ notifications = "open")
         /\ (InFlight(g) /\ stats.closes > 0 => inactive)
         /\ (InFlight(g) <=> g \in switchLock.readers)

\* the transition waits for a call that has issued the first of its two queries
C6_Witness ==
    /\ dpc = "im_Lock"
    /\ Driver \in switchLock.pending
    /\ pc["g1"] = "SignAndPushInvocationTx"
    /\ Len(calls["g1"]) = 1
    /\ pc["g2"] = "RLock"

\* C7: every connection call of one operation is issued on the handle that was
\* active when the operation acquired the shared lock.
C7_OneHandlePerCall ==
    \A g \in Callers :
       \A i \in 1..Len(calls[g]) : calls[g][i].h = lv[g].held

\* an Invoke issued both calls on the old handle, the connection was swapped,
\* and a GasBalance issued both of its queries on the new one
C7_Witness ==
    /\ stats.swaps = 1
    /\ op["g1"] = "Invoke"
    /\ Len(calls["g1"]) = 2
    /\ lv["g1"].held = 0
    /\ client = 1
    /\ op["g2"] = "GasBalance"
    /\ Len(calls["g2"]) = 2
    /\ lv["g2"].held = 1

\* the connection calls of g named rpc
CallsOf(g, rpc) == {i \in 1..Len(calls[g]) : calls[g][i].rpc = rpc}

\* C8: Invoke submits a transaction only after a local execution that returned
\* without a transport error, in state HALT and with a non-empty script.  A
\* state other than HALT is returned as an error carrying the state and the
\* fault text, an empty script of a HALT execution as the empty-script error;
\* neither submits a transaction.
C8_SubmitOnlyAfterHalt ==
    \A g \in Callers :
       op[g] = "Invoke" =>
          LET resp   == lv[g].resp
              pushes == CallsOf(g, "SignAndPushInvocationTx")
          IN /\ (pushes # {} =>
                    /\ pushes = {2}
                    /\ calls[g][1].rpc = "InvokeFunction"
                    /\ resp # NoResp
                    /\ ~resp.err
                    /\ resp.State = HaltState
                    /\ Len(resp.Script) > 0)
             /\ (pc[g] = "ret" /\ resp # NoResp /\ ~resp.err /\ resp.State # HaltState =>
                    /\ ret[g].kind = "notHaltState"
                    /\ ret[g].state = resp.State
                    /\ ret[g].exception = resp.FaultException
                    /\ pushes = {})
             /\ (pc[g] = "ret" /\ resp # NoResp /\ ~resp.err /\ resp.State = HaltState
                    /\ Len(resp.Script) = 0 =>
                    /\ ret[g].kind = "emptyInvocationScript"
                    /\ pushes = {})
             /\ (pc[g] = "ret" /\ resp # NoResp /\ resp.err =>
                    ret[g].kind = "transport" /\ pushes = {})

\* an Invoke whose local execution faulted with a script has returned
C8_Witness ==
    /\ op[Solo] = "Invoke"
    /\ pc[Solo] = "ret"
    /\ lv[Solo].resp.State = "FAULT"
    /\ Len(lv[Solo].resp.Script) > 0
    /\ ret[Solo].kind = "notHaltState"
    /\ ret[Solo].exception = "boom"
    /\ Len(calls[Solo]) = 1

\* the kinds of argument the conversion supports
SupportedKinds ==
    {"[]byte", "int", "int64", "uint64", "[][]byte", "string", "util.Uint160",
     "noderoles.Role", "keys.PublicKeys", "bool"}

\* C9: on an active client an Invoke or TestInvoke with an argument of an
\* unsupported kind at any position returns the unsupported-parameter error
\* and issues no call on the connection.
C9_UnsupportedBeforeNetwork ==
    \A g \in Callers :
       /\ op[g] \in {"Invoke", "TestInvoke"}
       /\ \E i \in 1..Len(in[g].args) : in[g].args[i].kind \notin SupportedKinds
       => /\ calls[g] = <<>>
          /\ pc[g] \in {"RLock", "inactive", "params", "ret"}
          /\ (pc[g] = "ret" => ret[g].kind \in {"unsupportedParameter", "ErrConnectionLost"})
          /\ (pc[g] = "ret" /\ ~inactive => ret[g].kind = "unsupportedParameter")

\* an active client refused a call whose second argument is unsupported
C9_Witness ==
    /\ ~inactive
    /\ op[Solo] = "TestInvoke"
    /\ pc[Solo] = "ret"
    /\ Len(in[Solo].args) = 2
    /\ in[Solo].args[1].kind = "keys.PublicKeys"
    /\ in[Solo].args[2].kind = "float64"
    /\ ret[Solo].kind = "unsupportedParameter"
    /\ calls[Solo] = <<>>

\* C10: a Wait on an active client whose context is cancelled before the call
\* returns nil, never sleeps and issues at most one height query.
C10_CancelledWaitReturnsAtOnce ==
    \A g \in Callers :
       op[g] = "Wait" /\ in[g].cancelled =>
          /\ Len(calls[g]) <= 1
          /\ \A i \in 1..Len(calls[g]) : calls[g][i].rpc = "GetBlockCount"
          /\ ~lv[g].slept
          /\ pc[g] \notin {"poll", "Sleep"}
          /\ (pc[g] = "ret" /\ (calls[g] # <<>> \/ ~inactive) => ret[g].kind = "nil")

\* a cancelled Wait returned nil after its one successful height query
C10_Witness ==
    /\ op[Solo] = "Wait"
    /\ in[Solo].cancelled
    /\ in[Solo].n = 2
    /\ pc[Solo] = "ret"
    /\ ret[Solo].kind = "nil"
    /\ Len(calls[Solo]) = 1
    /\ lv[Solo].height = chainHeight
    /\ chainHeight = 2

\* the last connection call of g was answered with an error
LastCallFailed(g) == calls[g] # <<>> /\ ~calls[g][Len(calls[g])].ok

\* C11: a failed height query of the polling loop does not end the wait: a
\* Wait whose last query was a failed poll has returned only if its context
\* was cancelled.
C11_FailedPollRetried ==
    \A g \in Callers :
       op[g] = "Wait" /\ pc[g] = "ret" /\ Len(calls[g]) >= 2 /\ LastCallFailed(g)
       => CtxDone(g)

\* C12: Wait returns nil or ErrConnectionLost; it returns ErrConnectionLost
\* only to a call that found the client inactive and issued no query, and a
\* failed height query, the first or a later one, is answered with nil.
C12_WaitReturnsOnlyConnectionErrors ==
    \A g \in Callers :
       op[g] = "Wait" /\ pc[g] = "ret" =>
          /\ ret[g].kind \in {"nil", "ErrConnectionLost"}
          /\ (ret[g].kind = "ErrConnectionLost" => inactive /\ calls[g] = <<>>)
          /\ (calls[g] # <<>> => ret[g].kind = "nil")
          /\ (LastCallFailed(g) => ret[g].kind = "nil")

\* a Wait whose second height query failed has returned nil
C12_Witness ==
    /\ op[Solo] = "Wait"
    /\ pc[Solo] = "ret"
    /\ ~CtxDone(Solo)
    /\ Len(calls[Solo]) = 2
    /\ calls[Solo][1].ok
    /\ ~calls[Solo][2].ok
    /\ ret[Solo].kind = "nil"

\* the auxiliary read operations
AuxReads ==
    {"BlockCount", "GetDesignateHash", "Committee", "MsPerBlock", "TxHeight",
     "TxHalt", "NeoFSAlphabetList", "GasBalance", "IsValidScript"}

\* the two of them that need the answer of a first query to ask the second
TwoQueryReads == {"NeoFSAlphabetList", "GasBalance"}

\* the connection calls of g, by name
RpcsOf(g) == [i \in 1..Len(calls[g]) |-> calls[g][i].rpc]

\* C13 as claimed: every auxiliary read on an active client issues exactly one
\* call on the connection.
C13_ExactlyOneCall ==
    \A g \in Callers :
       op[g] \in AuxReads =>
          /\ Len(calls[g]) <= 1
          /\ (pc[g] = "ret" /\ ret[g].kind # "ErrConnectionLost" => Len(calls[g]) = 1)

\* C13 as amended: BlockCount, GetDesignateHash, Committee, MsPerBlock,
\* TxHeight, TxHalt and IsValidScript issue exactly one call.  GasBalance and
\* NeoFSAlphabetList issue their first query and, only if it succeeded, one
\* second query of another kind.  No query is issued twice, and every call is
\* issued while the shared lock is held.
C13_OneCallPerQuery ==
    \A g \in Callers :
       op[g] \in AuxReads =>
          LET n      == Len(calls[g])
              active == pc[g] = "ret" /\ ret[g].kind # "ErrConnectionLost"
          IN /\ \A i, j \in 1..n : i # j => calls[g][i].rpc # calls[g][j].rpc
             /\ (n > 0 /\ pc[g] # "ret" => g \in switchLock.readers)
             /\ (pc[g] = "ret" /\ ret[g].kind = "ErrConnectionLost" => n = 0)
             /\ (op[g] \notin TwoQueryReads => n <= 1 /\ (active => n = 1))
             /\ (op[g] = "GasBalance" =>
                    /\ RpcsOf(g) \in {<<>>, <<"GetNativeContractHash">>,
                                      <<"GetNativeContractHash", "NEP17BalanceOf">>}
                    /\ (active => n >= 1 /\ (n = 2 <=> calls[g][1].ok)))
             /\ (op[g] = "NeoFSAlphabetList" =>
                    /\ RpcsOf(g) \in {<<>>, <<"GetBlockCount">>,
                                      <<"GetBlockCount", "GetDesignatedByRole">>}
                    /\ (active => n >= 1 /\ (n = 2 <=> calls[g][1].ok)))

\* a GasBalance and a BlockCount have returned their results
C13_Witness ==
    /\ op["g1"] = "GasBalance"
    /\ pc["g1"] = "ret"
    /\ ret["g1"].kind = "nil"
    /\ Len(calls["g1"]) = 2
    /\ op["g2"] = "BlockCount"
    /\ pc["g2"] = "ret"
    /\ ret["g2"].kind = "nil"
    /\ Len(calls["g2"]) = 1

\* g is inside TestInvoke with the shared lock held
InTestInvoke(g) ==
    op[g] = "TestInvoke" /\ pc[g] \in {"inactive", "params", "InvokeFunction"}

\* C14: a TestInvoke never waits for another reader.  Whatever the other caller
\* is doing, a TestInvoke at its RLock acquires the lock unless a writer holds
\* or has requested it, and a TestInvoke that holds the lock can take its next
\* step (its check, its conversion, its connection call and its return), so two
\* of them are in their connection call together and each one completes.
C14_ReadersDoNotExclude ==
    \A g \in Callers :
       /\ (op[g] = "TestInvoke" /\ pc[g] = "RLock"
              /\ switchLock.writer = None /\ switchLock.pending = {}
           => ENABLED RLock(g))
       /\ (InTestInvoke(g) =>
              /\ g \in switchLock.readers
              /\ switchLock.writer = None
              /\ ENABLED TestInvoke(g, Sample))
       /\ (op[g] = "TestInvoke" /\ pc[g] = "InvokeFunction" /\ ~inactive =>
              ENABLED (TestInvoke(g, Sample) /\ ret'[g].kind = "nil"))

\* both callers are in the connection call of TestInvoke, both hold the lock
C14_Witness ==
    /\ \A g \in Callers : op[g] = "TestInvoke" /\ pc[g] = "InvokeFunction"
    /\ switchLock.readers = Callers
    /\ ~inactive

\* C17: a successful Invoke has issued one local execution and then one
\* submission, nothing else, and the system fee it submitted is the consumed gas
\* of the execution plus the extra fee of the caller, as integers.
C17_SubmittedFeeIsSum ==
    \A g \in Callers :
       op[g] = "Invoke" /\ pc[g] = "ret" /\ ret[g].kind = "nil" =>
          /\ RpcsOf(g) = <<"InvokeFunction", "SignAndPushInvocationTx">>
          /\ lv[g].sysFee = lv[g].resp.GasConsumed + in[g].fee

\* C19: a Wait that was not cancelled and saw no query error returns only when
\* the height it read last is at least the height it read first plus n, as
\* integers.
C19_WaitReachesHeight ==
    \A g \in Callers :
       /\ op[g] = "Wait"
       /\ pc[g] = "ret"
       /\ ~CtxDone(g)
       /\ Len(calls[g]) >= 2
       /\ \A i \in 1..Len(calls[g]) : calls[g][i].ok
       => lv[g].newHeight >= lv[g].height + in[g].n

\* the error of a failed connection call, as it is or wrapped
TransportErrors == {"transport", "wrapped:transport", "wrapped:wrapped:transport"}

\* some connection call of g has failed
SomeCallFailed(g) == \E i \in 1..Len(calls[g]) : ~calls[g][i].ok

\* C18 as claimed: in every operation but Wait a failed connection call is
\* returned to the caller as an error value, MagicNumber included.
C18_FailuresAreReturned ==
    \A g \in Callers :
       op[g] \notin {"Wait", "none"} /\ pc[g] = "ret" /\ SomeCallFailed(g)
       => ret[g].kind \in TransportErrors

\* C18 as amended: in every operation but Wait and MagicNumber a failed
\* connection call ends the operation, which returns that error, as it is or
\* wrapped.  MagicNumber panics with the error of a failed GetNetwork, the
\* shared lock released on the way out.  An operation returns such an error or
\* panics only when its last call has failed.
C18_FailuresAreReturnedOrPanic ==
    \A g \in Callers :
       op[g] \notin {"Wait", "none"} =>
          /\ \A i \in 1..Len(calls[g]) : ~calls[g][i].ok => i = Len(calls[g]) /\ pc[g] = "ret"
          /\ (pc[g] = "ret" /\ SomeCallFailed(g) =>
                 /\ g \notin switchLock.readers
                 /\ IF op[g] = "MagicNumber"
                    THEN ret[g].kind = "panic"
                    ELSE ret[g].kind \in TransportErrors)
          /\ (pc[g] = "ret" /\ ret[g].kind \in TransportErrors \cup {"panic"} =>
                 LastCallFailed(g))

\* a failed GetBlockCount of NeoFSAlphabetList comes back wrapped twice while
\* a MagicNumber has panicked
C18_Witness ==
    /\ op["g1"] = "NeoFSAlphabetList"
    /\ pc["g1"] = "ret"
    /\ LastCallFailed("g1")
    /\ ret["g1"].kind = "wrapped:wrapped:transport"
    /\ op["g2"] = "MagicNumber"
    /\ pc["g2"] = "ret"
    /\ ret["g2"].kind = "panic"

\* g is inside Wait, between its RLock and its return
WaitInFlight(g) == op[g] = "Wait" /\ InFlight(g)

\* C20: from the acquisition of the shared lock to its return, the sleeps
\* between polls included, a Wait is a reader of the switch lock, so no writer
\* holds the lock meanwhile: the driver is neither inside the critical section
\* of inactiveMode nor swapping the connection.  No step taken while a Wait is
\* in flight changes the inactive flag, the notification channel or the
\* connection handle, and the Wait leaves this condition only by returning.
C20_WaitBlocksTransition ==
    /\ [](\A g \in Callers :
            WaitInFlight(g) =>
               /\ g \in switchLock.readers
               /\ switchLock.writer = None
               /\ ~InTransition
               /\ dpc # "sw_swap"
               /\ (PastCheck(g) => ~inactive /\ notifications = "open"))
    /\ [][\A g \in Callers :
            WaitInFlight(g) =>
               /\ inactive' = inactive
               /\ notifications' = notifications
               /\ client' = client
               /\ (pc'[g] = "ret" \/ (op'[g] = "Wait" /\ pc'[g] \notin {"idle", "RLock"}))]_vars

\* a Wait sleeps between two polls while inactiveMode waits for the lock
C20_Witness ==
    /\ op["g1"] = "Wait"
    /\ pc["g1"] = "Sleep"
    /\ Len(calls["g1"]) = 2
    /\ dpc = "im_Lock"
    /\ Driver \in switchLock.pending
    /\ ~inactive

\* the invalidator is inside the critical section of invalidate
Invalidating == kproc[Invalidator].pc \in {"nnsHash", "gKey", "Purge", "Unlock"}

\* C15: invalidate clears the two facts and the transaction heights in one
\* critical section.  It holds the exclusive lock of the cache from its first
\* write to its last with no reader inside; whenever no writer holds the lock,
\* every field was last written in the present invalidation epoch (none is
\* left from before an invalidation that has cleared another); and the values
\* the reader gets never go back from after an invalidation to before it.
C15_InvalidateIsAtomic ==
    /\ (Invalidating => cache.m.writer = Invalidator /\ cache.m.readers = {})
    /\ (cache.m.writer = None =>
           \A f \in Facts \cup {"txHeights"} : hist.stamp[f] = hist.epoch)
    /\ (cache.m.readers # {} => cache.m.writer = None)
    /\ \A i, j \in 1..Len(hist.seen) :
          i < j => hist.seen[i].epoch <= hist.seen[j].epoch

\* the reader got the group key of before the invalidation, then the absent
\* name-service hash of after it
C15_Witness ==
    /\ hist.invalidations = 1
    /\ kproc[Invalidator].pc = "idle"
    /\ Len(hist.seen) = 2
    /\ hist.seen[1].f = "gKey"
    /\ hist.seen[1].val # Nil
    /\ hist.seen[1].epoch = 0
    /\ hist.seen[2].f = "nnsHash"
    /\ hist.seen[2].val = Nil
    /\ hist.seen[2].epoch = 1

\* C16: the value nns() and groupKey() return is the value the field of the
\* shared cache has while the accessor holds the read lock.
C16_ReadUnderLock ==
    \A p \in CacheUsers :
       kproc[p].pc = "return" =>
          kproc[p].copy[FieldOf(kproc[p].op)] = cache[FieldOf(kproc[p].op)]

\* the callback has called BlockCount and waits at its RLock
CallbackWaits ==
    /\ dpc = "im_cbrun"
    /\ cfg.inactiveModeCb = "BlockCount"
    /\ op[Callback] = "BlockCount"
    /\ pc[Callback] = "RLock"

\* C21: the callback runs while inactiveMode holds the exclusive switch lock.
\* A callback that calls BlockCount never gets past its RLock: from then on the
\* callback cannot take the lock, inactiveMode cannot take a step, so it never
\* returns and never unlocks, no caller is past its own RLock and none can take
\* the lock, and this state is never left.
C21_CallbackReentryDeadlocks ==
    /\ [](dpc \in {"im_cb", "im_cbrun"} => switchLock.writer = Driver)
    /\ [](cfg.inactiveModeCb = "BlockCount" =>
             /\ pc[Callback] \in {"idle", "RLock"}
             /\ stats.cbReturns = 0
             /\ stats.done = 0)
    /\ [](CallbackWaits =>
             /\ switchLock.writer = Driver
             /\ ~ENABLED callbackBlockCount
             /\ ~ENABLED inactiveMode
             /\ \A g \in Callers :
                  /\ pc[g] \in {"idle", "RLock", "ret"}
                  /\ (pc[g] = "RLock" => ~ENABLED BlockCount(g)))
    /\ [][CallbackWaits => CallbackWaits']_vars

\* the callback waits for the lock its own goroutine holds, and both callers
\* wait behind it: no step is left to take
C21_Witness ==
    /\ CallbackWaits
    /\ \A g \in Callers : op[g] = "BlockCount" /\ pc[g] = "RLock"
    /\ ~ENABLED NextCallback

\* goroutine p takes the step
Moves(p) == kproc'[p] # kproc[p]

\* the Writer takes a step of setter o
Sets(o) == Moves(Writer) /\ o \in {kproc[Writer].op, kproc'[Writer].op}

\* C22: the accessors of the cache change only what they name.  No step of
\* nns() or groupKey() changes a fact or the transaction heights, and none
\* issues a call on the connection.  A step of setNNSHash changes nothing but
\* nnsHash, which is its argument when it unlocks; likewise setGroupKey and
\* gKey.  invalidate only clears: both facts are absent when it unlocks and the
\* transaction heights are empty after its Purge.  A fact becomes present only
\* by the write of its setter, and the transaction heights become non-empty
\* only by an insertion, so what invalidate cleared stays absent until the
\* next set.
C22_AccessorsChangeWhatTheyName ==
    /\ [](/\ (kproc[Writer].pc = "Unlock" /\ kproc[Writer].op = "setNNSHash"
                 => cache.nnsHash = kproc[Writer].arg /\ cache.nnsHash \in NNSHashes)
          /\ (kproc[Writer].pc = "Unlock" /\ kproc[Writer].op = "setGroupKey"
                 => cache.gKey = kproc[Writer].arg /\ cache.gKey \in GroupKeys)
          /\ (kproc[Invalidator].pc \in {"Purge", "Unlock"}
                 => cache.nnsHash = Nil /\ cache.gKey = Nil))
    /\ [][/\ (Moves(Reader) =>
                 /\ cache'.nnsHash = cache.nnsHash
                 /\ cache'.gKey = cache.gKey
                 /\ cache'.txHeights = cache.txHeights
                 /\ calls' = calls
                 /\ client' = client)
          /\ (Sets("setNNSHash") =>
                 /\ cache'.nnsHash \in {cache.nnsHash, kproc[Writer].arg}
                 /\ cache'.gKey = cache.gKey
                 /\ cache'.txHeights = cache.txHeights)
          /\ (Sets("setGroupKey") =>
                 /\ cache'.gKey \in {cache.gKey, kproc[Writer].arg}
                 /\ cache'.nnsHash = cache.nnsHash
                 /\ cache'.txHeights = cache.txHeights)
          /\ (Moves(Invalidator) =>
                 /\ cache'.nnsHash \in {cache.nnsHash, Nil}
                 /\ cache'.gKey \in {cache.gKey, Nil}
                 /\ cache'.txHeights \in {cache.txHeights, {}}
                 /\ (kproc[Invalidator].pc = "Purge" => cache'.txHeights = {}))
          /\ (cache'.nnsHash # cache.nnsHash /\ cache'.nnsHash # Nil =>
                 Sets("setNNSHash") /\ kproc[Writer].pc = "write")
          /\ (cache'.gKey # cache.gKey /\ cache'.gKey # Nil =>
                 Sets("setGroupKey") /\ kproc[Writer].pc = "write")
          /\ (cache'.txHeights # cache.txHeights /\ cache'.txHeights # {} =>
                 hist'.sets = hist.sets + 1 /\ ~Moves(Writer))]_vars

\* the name-service hash was set and read, then invalidate cleared it and the
\* transaction heights, and the next read found it absent while the group key
\* has been set again
C22_Witness ==
    /\ hist.invalidations = 1
    /\ kproc[Invalidator].pc = "idle"
    /\ cache.nnsHash = Nil
    /\ cache.gKey \in GroupKeys
    /\ cache.txHeights = {}
    /\ Len(hist.seen) = 2
    /\ hist.seen[1] = [f |-> "nnsHash", val |-> "h1", epoch |-> 0]
    /\ hist.seen[2] = [f |-> "nnsHash", val |-> Nil, epoch |-> 1]

====
